---- MODULE Spec2Model ----
(***************************************************************************)
(* Verification model of the PSC-Graph retrieval and calibration scripts:  *)
(*   scripts/retrieve_evidence.py       HybridRetriever                    *)
(*   scripts/calibrate_and_conformal.py TemperatureScaling,                *)
(*                                      ConformalPredictor                 *)
(*                                                                         *)
(* Numbers.  Scores are exact rationals kept as integers over a stated     *)
(* denominator:                                                            *)
(*   - a lexical (cosine) score s stands for s / MaxScore;                 *)
(*   - an L2 distance is an integer d, and the vector score 1/(1+d) is     *)
(*     kept as FaissScale \div (1+d) over FaissScale;                      *)
(*   - a min-max normalised score is a pair <<num, den>>;                  *)
(*   - the fusion weight alpha is AlphaNum / AlphaDen.                     *)
(* A query is identified with the response of the two indexes to it: its   *)
(* row of cosine similarities lex[r] / lex_den and its row of L2 distances *)
(* dist[r] / dist_unit; its vector scores are kept over vec_den.           *)
(***************************************************************************)
EXTENDS Integers, Sequences, FiniteSets, TLC

\* ------------------------------------------------------------ bounds
NumDocs == 3
MaxTopK == 2
AlphaDen == 2
\* cosine similarities a query can have with a row, over MaxScore
LexLevels == {0, 1}
\* L2 distances a query can have to a row
DistLevels == {0, 1, 2}

TopKs == 1..MaxTopK
Alphas == 0..AlphaDen

RECURSIVE Lcm(_, _)
Gcd(a, b) == CHOOSE g \in 1..a : a % g = 0 /\ b % g = 0
                 /\ \A h \in 1..a : (a % h = 0 /\ b % h = 0) => h <= g
Lcm(n, acc) == IF n = 0 THEN acc ELSE Lcm(n - 1, (acc * n) \div Gcd(n, acc))

NoIndex == [loaded |-> FALSE, ntotal |-> 0]

Range(s) == {s[i] : i \in DOMAIN s}
SeqMax(S) == CHOOSE x \in S : \A y \in S : y <= x
SeqMin(S) == CHOOSE x \in S : \A y \in S : x <= y
\* a slice s[:n] as it would be if it kept the whole list
TakeAll(s, n) == s
\* s[:n]
Take(s, n) == SubSeq(s, 1, IF n < Len(s) THEN n ELSE Len(s))
Perms(S) == {p \in [1..Cardinality(S) -> S] : \A i, j \in DOMAIN p : p[i] = p[j] => i = j}

MaxScore == SeqMax(LexLevels)
MaxDist == SeqMax(DistLevels)
FaissScale == Lcm(MaxDist + 1, 1)

\* sentinel of faiss for a missing neighbour: label -1, distance FLT_MAX
NoRow == -1
FltMax == FaissScale * FaissScale

VARIABLES
    \* HybridRetriever
    tfidf_rows,     \* self.tfidf_matrix.shape[0]: the number of indexed documents
    use_faiss,      \* self.use_faiss
    faiss_index,    \* self.faiss_index: NoIndex until load_faiss_index has read it
    idx_to_id,      \* self.idx_to_id: row index -> doc_id
    documents,      \* self.documents: the doc_ids that have a metadata entry
    hashOrder,      \* iteration order of a set of doc_id strings in this process
    pc,             \* "prompt" (waiting for a query), "show" (a call has returned)
    last,           \* the last call and what it gave
    \* TemperatureScaling
    temperature,    \* self.temperature, in tenths
    fit_calls,      \* history: whether fit has been called on this instance
    ts_last,        \* the call in progress on the calibrator and what it gave
    \* ConformalPredictor
    cp_alpha,       \* self.alpha, in percent
    quantile,       \* self.quantile
    calibrate_calls,\* history: whether calibrate has been called on this instance
    cp_last,        \* the call in progress on the predictor and what it gave
    \* a pure function under test
    fn_args,        \* the arguments it is applied to
    fn_ret,         \* [done |-> FALSE], or [done |-> TRUE, value |-> what it returned]
    \* evaluate_retrieval.main
    sweep_pc,       \* where main is: "load", "strategies", "evaluate", "report", ...
    test_queries,   \* the list load_test_queries_from_annotations returned
    strategies,     \* the (name, alpha) list of the sweep, alpha in tenths
    results_table,  \* one row of average metrics per evaluated strategy
    best,           \* the strategies reported as best, once main has reported
    \* the file system and a process inside save_checkpoint / load_checkpoint
    fs,             \* path -> text of the file, or NoFile
    ckpt_pc,        \* the step of save_checkpoint the process is at
    ckpt_arg,       \* the state dict handed to save_checkpoint
    ckpt_prev,      \* history: the state the checkpoint file held before the call
    ckpt_loaded,    \* what load_checkpoint gave after the process stopped
    \* crawl_gov_central.crawl_site
    crawl_pc,       \* "resume", "loop", "done" or "stopped"
    page_num,       \* the loop variable of the list-page loop
    checkpoint,     \* the in-memory checkpoint dict: site -> next_page
    fetched,        \* history: list pages fetched and processed successfully
    \* DemoRunner.run_all
    run_pc,         \* "loop", "summary" or "done"
    demo_i,         \* index into self.demos of the demo handled next
    completed,      \* local counter of run_all
    failed,         \* local counter of run_all
    skipped,        \* local counter of run_all
    skip_optional,  \* the argument of run_all
    outcomes,       \* history: what happened to each demo run_demo was called on
    summary         \* the verdict line print_summary printed

retrieverVars == <<tfidf_rows, use_faiss, faiss_index, idx_to_id, documents, hashOrder, pc, last>>
temperatureVars == <<temperature, fit_calls, ts_last>>
conformalVars == <<cp_alpha, quantile, calibrate_calls, cp_last>>
calibrationVars == <<temperature, fit_calls, ts_last, cp_alpha, quantile, calibrate_calls, cp_last>>
functionVars == <<fn_args, fn_ret>>
sweepVars == <<sweep_pc, test_queries, strategies, results_table, best>>
checkpointVars == <<fs, ckpt_pc, ckpt_arg, ckpt_prev, ckpt_loaded>>
crawlVars == <<crawl_pc, page_num, checkpoint, fetched>>
runnerVars == <<run_pc, demo_i, completed, failed, skipped, skip_optional, outcomes, summary>>
scriptVars == <<sweepVars, checkpointVars, crawlVars, runnerVars>>
objectVars == <<retrieverVars, temperatureVars, conformalVars, functionVars>>
otherThanRetriever == <<temperature, fit_calls, ts_last, cp_alpha, quantile,
                        calibrate_calls, cp_last, fn_args, fn_ret, scriptVars>>
vars == <<tfidf_rows, use_faiss, faiss_index, idx_to_id, documents, hashOrder, pc, last,
          temperature, fit_calls, ts_last, cp_alpha, quantile, calibrate_calls, cp_last,
          fn_args, fn_ret, scriptVars>>

\* the rows of the document-term matrix
Rows == 0..(tfidf_rows - 1)
\* build_id_mapping enumerates doc_ids: row r holds the r-th document.
DocIdOfRow(r) == r + 1
DocIds == {DocIdOfRow(r) : r \in Rows}
NoDist == [r \in Rows |-> 0]
QueryProfiles == [lex : [Rows -> LexLevels], lex_den : {MaxScore},
                  dist : [Rows -> DistLevels], dist_unit : {1}, vec_den : {FaissScale}]

\* ------------------------------------------------------------ index adapters

\* A call's outcome: status "ok" with the returned list, or the exception raised.
Ok(results, den) == [status |-> "ok", results |-> results, den |-> den]
Raise(exc) == [status |-> exc, results |-> <<>>, den |-> 1]

\* np.argsort(scores): ascending; for the array sizes modelled (at most 16
\* elements) numpy's introsort is an insertion sort, so equal scores keep their
\* row order.
RECURSIVE ArgsortFrom(_, _)
ArgsortFrom(scores, left) ==
    IF left = {} THEN <<>>
    ELSE LET r == CHOOSE x \in left : \A y \in left :
                      \/ scores[x] < scores[y]
                      \/ (scores[x] = scores[y] /\ x <= y)
         IN <<r>> \o ArgsortFrom(scores, left \ {r})
Argsort(scores) == ArgsortFrom(scores, DOMAIN scores)

Reverse(s) == [i \in 1..Len(s) |-> s[Len(s) + 1 - i]]

\* for idx in ...: doc_id = self.idx_to_id[idx]   (KeyError when idx is no key)
ResolveRows(pairs) ==
    IF \E i \in DOMAIN pairs : pairs[i][1] \notin DOMAIN idx_to_id
    THEN Raise("KeyError")
    ELSE Ok([i \in DOMAIN pairs |-> <<idx_to_id[pairs[i][1]], pairs[i][2]>>], 1)

\* HybridRetriever.bm25_search: cosine scores, argsort reversed, first top_k.
bm25_search(query, top_k) ==
    LET scores == query.lex
        top_indices == Take(Reverse(Argsort(scores)), top_k)
        r == ResolveRows([i \in DOMAIN top_indices |->
                             <<top_indices[i], scores[top_indices[i]]>>])
    IN IF r.status = "ok" THEN Ok(r.results, query.lex_den) ELSE r

\* faiss_index.search(query_emb, k) on the IndexFlatL2 built by build_index:
\* the min(k, ntotal) nearest rows by ascending distance (equal distances by
\* ascending row), then labels -1 with distance FLT_MAX up to length k.
FaissIndexSearch(dist, k) ==
    LET nearest == Argsort(dist)
    IN [i \in 1..k |-> IF i <= Len(nearest) /\ i <= faiss_index.ntotal
                       THEN <<nearest[i], dist[nearest[i]]>>
                       ELSE <<NoRow, FltMax>>]

\* score = 1.0 / (1.0 + float(dist)), in units of 1/query.vec_den
ScoreOfDist(query, d) == (query.vec_den * query.dist_unit) \div (query.dist_unit + d)

\* HybridRetriever.faiss_search
faiss_search(query, top_k) ==
    IF ~use_faiss THEN Raise("RuntimeError")
    ELSE LET found == FaissIndexSearch(query.dist, top_k)
             r == ResolveRows(found)
         IN IF r.status = "ok"
            THEN Ok([i \in DOMAIN r.results |->
                        <<r.results[i][1], ScoreOfDist(query, r.results[i][2])>>],
                   query.vec_den)
            ELSE r

\* ------------------------------------------------------------ score fusion

\* normalize_scores as it would be without its max_score == min_score branch
normalize_scores_unguarded(results) ==
    IF results = <<>> THEN <<>>
    ELSE LET scores == {results[i][2] : i \in DOMAIN results}
             max_score == SeqMax(scores)
             min_score == SeqMin(scores)
         IN [doc_id \in {results[i][1] : i \in DOMAIN results} |->
                <<(CHOOSE r \in Range(results) : r[1] = doc_id)[2] - min_score,
                  max_score - min_score>>]
\* normalize_scores (the closure of hybrid_search): a dict doc_id -> score in
\* [0,1], here doc_id -> <<num, den>>.  Results hold each doc_id once, as the
\* rows an adapter returns are distinct and idx_to_id is one-to-one.
normalize_scores(results) ==
    IF results = <<>> THEN <<>>
    ELSE LET scores == {results[i][2] : i \in DOMAIN results}
             max_score == SeqMax(scores)
             min_score == SeqMin(scores)
             ScoreOf(doc_id) ==
                 LET i == CHOOSE j \in DOMAIN results :
                              /\ results[j][1] = doc_id
                              /\ \A k \in DOMAIN results : results[k][1] = doc_id => k <= j
                 IN results[i][2]
         IN [doc_id \in {results[i][1] : i \in DOMAIN results} |->
                IF max_score = min_score THEN <<1, 1>>
                ELSE <<ScoreOf(doc_id) - min_score, max_score - min_score>>]

\* the common denominator of a normalised dict (1 for the empty dict)
NormDen(norm) == IF DOMAIN norm = {} THEN 1 ELSE norm[CHOOSE d \in DOMAIN norm : TRUE][2]
\* norm.get(doc_id, 0.0), as a numerator over NormDen(norm)
NormGet(norm, doc_id) == IF doc_id \in DOMAIN norm THEN norm[doc_id][1] ELSE 0

\* for doc_id in all_doc_ids: a set of str iterates in the order the process's
\* string hashing gives it.
RECURSIVE SetIterFrom(_, _)
SetIterFrom(S, i) ==
    IF i > Len(hashOrder) THEN <<>>
    ELSE (IF hashOrder[i] \in S THEN <<hashOrder[i]>> ELSE <<>>) \o SetIterFrom(S, i + 1)
SetIter(S) == SetIterFrom(S, 1)

\* the fusion as it would be over the candidates both adapters returned
FuseScoresOfBothSides(bm25_norm, faiss_norm, alpha) ==
    LET all_doc_ids == DOMAIN bm25_norm \cap DOMAIN faiss_norm
        order == SetIter(all_doc_ids)
    IN [i \in DOMAIN order |->
           <<order[i],
             alpha * NormGet(bm25_norm, order[i]) * NormDen(faiss_norm)
             + (AlphaDen - alpha) * NormGet(faiss_norm, order[i]) * NormDen(bm25_norm)>>]
\* fused_scores[doc_id] = alpha * bm25_score + (1 - alpha) * faiss_score, as a
\* numerator over AlphaDen * NormDen(bm25_norm) * NormDen(faiss_norm); the dict
\* keeps the insertion order, which is the iteration order of all_doc_ids.
FuseScores(bm25_norm, faiss_norm, alpha) ==
    LET all_doc_ids == DOMAIN bm25_norm \cup DOMAIN faiss_norm
        order == SetIter(all_doc_ids)
    IN [i \in DOMAIN order |->
           <<order[i],
             alpha * NormGet(bm25_norm, order[i]) * NormDen(faiss_norm)
             + (AlphaDen - alpha) * NormGet(faiss_norm, order[i]) * NormDen(bm25_norm)>>]

\* sorted(items, key=lambda x: x[1], reverse=True): stable, so items of equal
\* score keep the order they had in items.
RECURSIVE SortedDesc(_)
SortedDesc(items) ==
    IF items = <<>> THEN <<>>
    ELSE LET i == CHOOSE j \in DOMAIN items :
                      /\ \A k \in DOMAIN items : items[k][2] <= items[j][2]
                      /\ \A k \in DOMAIN items : items[k][2] = items[j][2] => j <= k
         IN <<items[i]>> \o SortedDesc([k \in 1..(Len(items) - 1) |->
                                           IF k < i THEN items[k] ELSE items[k + 1]])

\* doc = next((d for d in self.documents if d['doc_id'] == doc_id), None);
\* if doc: results_with_meta.append(...)
RECURSIVE AttachMetadata(_)
AttachMetadata(results) ==
    IF results = <<>> THEN <<>>
    ELSE (IF results[1][1] \in documents THEN <<results[1]>> ELSE <<>>)
         \o AttachMetadata(Tail(results))

\* the lexical-only branch as it would be without the [:top_k] slice
LexicalOnlyKeepsFetched(query, top_k) ==
    LET bm25_results == bm25_search(query, top_k * 2)
    IN IF bm25_results.status # "ok" THEN bm25_results
       ELSE Ok(AttachMetadata(bm25_results.results), bm25_results.den)
\* hybrid_search without a vector index: bm25_results[:top_k] with metadata,
\* the same for every alpha
LexicalOnly(query, top_k) ==
    LET bm25_results == bm25_search(query, top_k * 2)
    IN IF bm25_results.status # "ok" THEN bm25_results
       ELSE Ok(AttachMetadata(Take(bm25_results.results, top_k)), bm25_results.den)

\* hybrid_search from the two candidate lists on: normalise, fuse, sort, cut to
\* top_k, attach metadata
FuseAndRank(bm25_results, faiss_results, top_k, alpha) ==
    LET bm25_norm == normalize_scores(bm25_results)
        faiss_norm == normalize_scores(faiss_results)
        fused_scores == FuseScores(bm25_norm, faiss_norm, alpha)
        sorted_results == Take(SortedDesc(fused_scores), top_k)
    IN Ok(AttachMetadata(sorted_results),
          AlphaDen * NormDen(bm25_norm) * NormDen(faiss_norm))

\* HybridRetriever.hybrid_search
hybrid_search(query, top_k, alpha) ==
    IF ~use_faiss
    THEN LexicalOnly(query, top_k)
    ELSE LET bm25_results == bm25_search(query, top_k * 2)
             faiss_results == faiss_search(query, top_k * 2)
         IN IF bm25_results.status # "ok" THEN bm25_results
            ELSE IF faiss_results.status # "ok" THEN faiss_results
            ELSE FuseAndRank(bm25_results.results, faiss_results.results, top_k, alpha)

\* ------------------------------------------------------------ retriever state machine

NoQuery == [lex |-> <<>>, lex_den |-> 1, dist |-> <<>>, dist_unit |-> 1, vec_den |-> 1]
NoCall == [op |-> "none", query |-> NoQuery, top_k |-> 0, alpha |-> 0,
           status |-> "none", results |-> <<>>, den |-> 1]
Call(op, query, top_k, alpha, ret) ==
    [op |-> op, query |-> query, top_k |-> top_k, alpha |-> alpha,
     status |-> ret.status, results |-> ret.results, den |-> ret.den]

\* The queries the retriever can be asked: without a vector index a query has
\* no distances.
Queries == IF use_faiss THEN QueryProfiles
           ELSE {q \in QueryProfiles : q.dist = NoDist}

\* HybridRetriever.__init__ on an index directory written by one build:
\* load_bm25_index, load_metadata, and load_faiss_index when asked for, which
\* may fail and leaves the retriever in BM25-only mode.
ConstructRetriever(n_docs, want_faiss, load_ok) ==
    /\ tfidf_rows = n_docs
    /\ idx_to_id = [r \in Rows |-> DocIdOfRow(r)]
    /\ documents = DocIds
    /\ use_faiss = (want_faiss /\ load_ok)
    /\ faiss_index = IF want_faiss /\ load_ok
                     THEN [loaded |-> TRUE, ntotal |-> n_docs] ELSE NoIndex

RetrieverOver(n_docs) ==
    /\ \E want_faiss \in BOOLEAN, load_ok \in BOOLEAN :
           ConstructRetriever(n_docs, want_faiss, load_ok)
    /\ hashOrder \in Perms(DocIds)
    /\ pc = "prompt"
    /\ last = NoCall

\* a retriever over an index of NumDocs documents
InitRetriever == RetrieverOver(NumDocs)
\* a retriever over an index that holds the 2 * top_k rows of every over-fetch
InitOverfetch == RetrieverOver(2 * MaxTopK)

Bm25Search ==
    /\ pc = "prompt"
    /\ \E query \in Queries, top_k \in TopKs :
           last' = Call("bm25_search", query, top_k, 0, bm25_search(query, top_k))
    /\ pc' = "show"
    /\ UNCHANGED <<tfidf_rows, use_faiss, faiss_index, idx_to_id, documents, hashOrder>>
    /\ UNCHANGED otherThanRetriever

FaissSearch ==
    /\ pc = "prompt"
    /\ \E query \in Queries, top_k \in TopKs :
           last' = Call("faiss_search", query, top_k, 0, faiss_search(query, top_k))
    /\ pc' = "show"
    /\ UNCHANGED <<tfidf_rows, use_faiss, faiss_index, idx_to_id, documents, hashOrder>>
    /\ UNCHANGED otherThanRetriever

\* hybrid_search as it would be if a failing vector search switched the
\* retriever to lexical-only mode
HybridSearchDegrading ==
    /\ pc = "prompt"
    /\ \E query \in Queries, top_k \in TopKs, alpha \in Alphas :
           /\ last' = Call("hybrid_search", query, top_k, alpha,
                           hybrid_search(query, top_k, alpha))
           /\ use_faiss' = (use_faiss /\ hybrid_search(query, top_k, alpha).status = "ok")
    /\ pc' = "show"
    /\ UNCHANGED <<tfidf_rows, faiss_index, idx_to_id, documents, hashOrder>>
    /\ UNCHANGED otherThanRetriever
HybridSearch ==
    /\ pc = "prompt"
    /\ \E query \in Queries, top_k \in TopKs, alpha \in Alphas :
           last' = Call("hybrid_search", query, top_k, alpha,
                        hybrid_search(query, top_k, alpha))
    /\ pc' = "show"
    /\ UNCHANGED <<tfidf_rows, use_faiss, faiss_index, idx_to_id, documents, hashOrder>>
    /\ UNCHANGED otherThanRetriever

\* format_results, then the next prompt of the interactive loop
FormatResults ==
    /\ pc = "show"
    /\ pc' = "prompt"
    /\ last' = NoCall
    /\ UNCHANGED <<tfidf_rows, use_faiss, faiss_index, idx_to_id, documents, hashOrder>>
    /\ UNCHANGED otherThanRetriever

\* ------------------------------------------------------------ TemperatureScaling

MaxExamples == 2
Classes == {0, 1}
\* raw classifier scores of one example
LogitLevels == {-1, 0, 1}
LogitRows == [Classes -> LogitLevels]
\* the values L-BFGS-B can end on within bounds=[(0.1, 10.0)], in tenths
Temperatures == {1, 5, 10, 25, 100}
Batches(RowSet) == UNION {[1..n -> RowSet] : n \in 0..MaxExamples}
LabelsFor(batch) == [DOMAIN batch -> Classes]

\* softmax(logits / T) is kept as the pair it is computed from
ScaledSoftmax(logits, T) == [logits |-> logits, temperature |-> T]
NoProbs == ScaledSoftmax(<<>>, 0)

NoTsCall == [op |-> "none", logits |-> <<>>, status |-> "none", ret |-> NoProbs]

\* TemperatureScaling.__init__
InitTemperature ==
    /\ temperature = 10
    /\ fit_calls = 0
    /\ ts_last = NoTsCall

\* TemperatureScaling.fit: self.temperature = result.x[0]; return it
Fit ==
    /\ ts_last.op = "none"
    /\ \E logits \in Batches(LogitRows) \ {<<>>}, T \in Temperatures :
           /\ temperature' = T
           /\ ts_last' = [op |-> "fit", logits |-> logits, status |-> "ok",
                          ret |-> ScaledSoftmax(<<>>, T)]
    /\ fit_calls' = 1
    /\ UNCHANGED <<retrieverVars, scriptVars, conformalVars, functionVars>>

\* TemperatureScaling.transform: softmax(logits / self.temperature)
transform(logits) == [status |-> "ok", ret |-> ScaledSoftmax(logits, temperature)]

Transform ==
    /\ ts_last.op = "none"
    /\ \E logits \in Batches(LogitRows) \ {<<>>} :
           LET r == transform(logits)
           IN ts_last' = [op |-> "transform", logits |-> logits,
                          status |-> r.status, ret |-> r.ret]
    /\ UNCHANGED <<temperature, fit_calls>>
    /\ UNCHANGED <<retrieverVars, scriptVars, conformalVars, functionVars>>

\* the caller takes the value (or the exception) and goes on
TsReturn ==
    /\ ts_last.op # "none"
    /\ ts_last' = NoTsCall
    /\ UNCHANGED <<temperature, fit_calls>>
    /\ UNCHANGED <<retrieverVars, scriptVars, conformalVars, functionVars>>

\* ------------------------------------------------------------ ConformalPredictor

\* a probability p stands for p / ProbScale
ProbScale == 4
ProbRows == {row \in [Classes -> 0..ProbScale] : row[0] + row[1] = ProbScale}
\* the significance levels a predictor is built with, in percent
SignificanceLevels == {5, 10, 20}
\* q_level = min(1.0, (1 - self.alpha) + 0.08)
BufferPct == 8
QLevelPct(alpha) == IF (100 - alpha) + BufferPct < 100 THEN (100 - alpha) + BufferPct ELSE 100

\* self.quantile: None, a float kept as value / (100 * ProbScale), or nan
NoneQuantile == [kind |-> "None", value |-> 0]
FloatQuantile(v) == [kind |-> "float", value |-> v]
NanQuantile == [kind |-> "nan", value |-> 0]

RECURSIVE SortAsc(_)
SortAsc(xs) ==
    IF xs = <<>> THEN <<>>
    ELSE LET i == CHOOSE j \in DOMAIN xs : \A k \in DOMAIN xs : xs[j] <= xs[k]
         IN <<xs[i]>> \o SortAsc([k \in 1..(Len(xs) - 1) |->
                                     IF k < i THEN xs[k] ELSE xs[k + 1]])

\* np.quantile(scores, q) with the default linear interpolation, scores not
\* empty: the value at the virtual index (n - 1) * q of the sorted scores, times 100.
Quantile100(scores, q_pct) ==
    LET sorted == SortAsc(scores)
        n == Len(scores)
        pos == (n - 1) * q_pct
        lo == pos \div 100
        hi == IF lo + 1 < n THEN lo + 1 ELSE n - 1
    IN 100 * sorted[lo + 1] + (pos % 100) * (sorted[hi + 1] - sorted[lo + 1])

\* np.quantile of an empty array: IndexError since numpy 1.22, nan (with a
\* warning) before
EmptyQuantileOutcomes == {"IndexError", "nan"}

\* scores = 1 - probs[range(len(labels)), labels]
NonconformityScores(probs, labels) ==
    [i \in DOMAIN labels |-> ProbScale - probs[i][labels[i]]]

NoCpCall == [op |-> "none", probs |-> <<>>, labels |-> <<>>, status |-> "none",
             sets |-> <<>>, coverage |-> <<0, 1>>]
CpCall(op, probs, labels, status, sets, coverage) ==
    [op |-> op, probs |-> probs, labels |-> labels, status |-> status,
     sets |-> sets, coverage |-> coverage]

\* ConformalPredictor.__init__
InitConformal ==
    /\ cp_alpha \in SignificanceLevels
    /\ quantile = NoneQuantile
    /\ calibrate_calls = 0
    /\ cp_last = NoCpCall

\* ConformalPredictor.calibrate
Calibrate ==
    /\ cp_last.op = "none"
    /\ \E probs \in Batches(ProbRows) : \E labels \in LabelsFor(probs) :
           LET scores == NonconformityScores(probs, labels)
           IN IF scores = <<>>
              THEN \E outcome \in EmptyQuantileOutcomes :
                       /\ quantile' = IF outcome = "nan" THEN NanQuantile ELSE quantile
                       /\ cp_last' = CpCall("calibrate", probs, labels,
                                            IF outcome = "nan" THEN "ok" ELSE outcome,
                                            <<>>, <<0, 1>>)
              ELSE /\ quantile' = FloatQuantile(Quantile100(scores, QLevelPct(cp_alpha)))
                   /\ cp_last' = CpCall("calibrate", probs, labels, "ok", <<>>, <<0, 1>>)
    /\ calibrate_calls' = 1
    /\ UNCHANGED cp_alpha
    /\ UNCHANGED <<retrieverVars, scriptVars, temperatureVars, functionVars>>

\* 1 - p <= self.quantile   (False for every p when the quantile is nan)
InPredictionSet(p) ==
    /\ quantile.kind = "float"
    /\ (ProbScale - p) * 100 <= quantile.value

\* ConformalPredictor.predict_set
predict_set(probs) ==
    IF quantile.kind = "None"
    THEN [status |-> "ValueError", sets |-> <<>>]
    ELSE [status |-> "ok",
          sets |-> [i \in DOMAIN probs |-> {c \in Classes : InPredictionSet(probs[i][c])}]]

\* ConformalPredictor.compute_coverage
compute_coverage(probs, labels) ==
    LET pred_sets == predict_set(probs)
        covered == Cardinality({i \in DOMAIN labels : labels[i] \in pred_sets.sets[i]})
    IN IF pred_sets.status # "ok"
       THEN [status |-> pred_sets.status, coverage |-> <<0, 1>>]
       ELSE IF Len(labels) = 0
       THEN [status |-> "ZeroDivisionError", coverage |-> <<0, 1>>]
       ELSE [status |-> "ok", coverage |-> <<covered, Len(labels)>>]

PredictSet ==
    /\ cp_last.op = "none"
    /\ \E probs \in Batches(ProbRows) :
           LET r == predict_set(probs)
           IN cp_last' = CpCall("predict_set", probs, <<>>, r.status, r.sets, <<0, 1>>)
    /\ UNCHANGED <<cp_alpha, quantile, calibrate_calls>>
    /\ UNCHANGED <<retrieverVars, scriptVars, temperatureVars, functionVars>>

ComputeCoverage ==
    /\ cp_last.op = "none"
    /\ \E probs \in Batches(ProbRows) : \E labels \in LabelsFor(probs) :
           LET r == compute_coverage(probs, labels)
           IN cp_last' = CpCall("compute_coverage", probs, labels, r.status, <<>>, r.coverage)
    /\ UNCHANGED <<cp_alpha, quantile, calibrate_calls>>
    /\ UNCHANGED <<retrieverVars, scriptVars, temperatureVars, functionVars>>

\* the caller takes the value (or the exception) and goes on
CpReturn ==
    /\ cp_last.op # "none"
    /\ cp_last' = NoCpCall
    /\ UNCHANGED <<cp_alpha, quantile, calibrate_calls>>
    /\ UNCHANGED <<retrieverVars, scriptVars, temperatureVars, functionVars>>

\* ------------------------------------------------------------ process restart

\* The script ends after showing its results and is started again on the same
\* index directory: __init__ loads the same files, and the new process has its
\* own string hashing.
Restart ==
    /\ pc = "show"
    /\ last.op = "hybrid_search"
    /\ hashOrder' \in Perms(DocIds)
    /\ pc' = "rerun"
    /\ UNCHANGED <<tfidf_rows, use_faiss, faiss_index, idx_to_id, documents, last>>
    /\ UNCHANGED otherThanRetriever

\* main() of the new process asks the query of the previous run again
RerunQuery ==
    /\ pc = "rerun"
    /\ last' = Call("hybrid_search", last.query, last.top_k, last.alpha,
                    hybrid_search(last.query, last.top_k, last.alpha))
    /\ pc' = "show"
    /\ UNCHANGED <<tfidf_rows, use_faiss, faiss_index, idx_to_id, documents, hashOrder>>
    /\ UNCHANGED otherThanRetriever

\* ------------------------------------------------------------ index desync

\* An index directory whose files come from different builds: id_map.json lacks
\* a row of the matrix, or doc_metadata.json lacks a document of the ID map.
Without(f, r) == [x \in (DOMAIN f) \ {r} |-> f[x]]
InitDesync ==
    /\ tfidf_rows = NumDocs
    /\ \E lost_row \in Rows \cup {NoRow}, lost_doc \in DocIds \cup {0} :
           /\ lost_row # NoRow \/ lost_doc # 0
           /\ idx_to_id = Without([r \in Rows |-> DocIdOfRow(r)], lost_row)
           /\ documents = DocIds \ {lost_doc}
    /\ \E load_ok \in BOOLEAN :
           /\ use_faiss = load_ok
           /\ faiss_index = IF load_ok THEN [loaded |-> TRUE, ntotal |-> NumDocs] ELSE NoIndex
    /\ hashOrder = [i \in 1..NumDocs |-> i]
    /\ pc = "prompt"
    /\ last = NoCall

\* ------------------------------------------------------------ normalize_scores alone

MaxResults == 3
MaxRawScore == 3
\* the lists an adapter can hand to normalize_scores: each doc_id at most once
ResultLists ==
    UNION {{rs \in [1..n -> (1..MaxResults) \X (0..MaxRawScore)] :
               \A i, j \in 1..n : rs[i][1] = rs[j][1] => i = j} : n \in 0..MaxResults}

NotApplied == [done |-> FALSE, value |-> <<>>]
Applied(v) == [done |-> TRUE, value |-> v]

InitNormalize ==
    /\ fn_args \in ResultLists
    /\ fn_ret = NotApplied

ApplyNormalize ==
    /\ ~fn_ret.done
    /\ fn_ret' = Applied(normalize_scores(fn_args))
    /\ UNCHANGED <<fn_args, retrieverVars, scriptVars, temperatureVars, conformalVars>>

\* ------------------------------------------------------------ five-document scenario

\* cosine scores of doc1..doc5 in tenths: 0.9 0.1 0.5 0.0 0.3
ScenarioLex == <<9, 1, 5, 0, 3>>
\* vector scores of doc1..doc5 in tenths: 0.2 0.9 0.4 0.6 0.1
ScenarioVec == <<2, 9, 4, 6, 1>>
\* the L2 distances that score so, in eighteenths: 18 / (18 + d) = score
ScenarioDist == <<72, 2, 27, 12, 162>>
ScenarioQuery ==
    [lex |-> [r \in 0..(Len(ScenarioLex) - 1) |-> ScenarioLex[r + 1]], lex_den |-> 10,
     dist |-> [r \in 0..(Len(ScenarioDist) - 1) |-> ScenarioDist[r + 1]],
     dist_unit |-> 18, vec_den |-> 10]
ScenarioTopKs == {Len(ScenarioLex), Len(ScenarioLex) + 1}
\* alpha = 0.5
ScenarioAlphas == {a \in Alphas : 2 * a = AlphaDen}
\* the candidates of one side, best first, as an adapter returns them
RECURSIVE CandidatesByScore(_, _)
CandidatesByScore(scores, left) ==
    IF left = {} THEN <<>>
    ELSE LET d == CHOOSE x \in left : \A y \in left : scores[y] <= scores[x]
         IN <<<<d, scores[d]>>>> \o CandidatesByScore(scores, left \ {d})

\* a retriever with its vector index over the five documents
InitScenario ==
    /\ ConstructRetriever(Len(ScenarioLex), TRUE, TRUE)
    /\ hashOrder \in Perms(DocIds)
    /\ pc = "prompt"
    /\ last = NoCall

\* hybrid_search(query, top_k, alpha=0.5) on the five-document index
ScenarioSearch ==
    /\ pc = "prompt"
    /\ \E top_k \in ScenarioTopKs, alpha \in ScenarioAlphas :
           last' = Call("hybrid_search", ScenarioQuery, top_k, alpha,
                        hybrid_search(ScenarioQuery, top_k, alpha))
    /\ pc' = "show"
    /\ UNCHANGED <<tfidf_rows, use_faiss, faiss_index, idx_to_id, documents, hashOrder>>
    /\ UNCHANGED otherThanRetriever

\* lines 169-203 of hybrid_search on the two candidate lists of the scenario
ScenarioFuse ==
    /\ ~fn_ret.done
    /\ \E top_k \in ScenarioTopKs, alpha \in ScenarioAlphas :
           LET bm25_results == CandidatesByScore(ScenarioLex, DOMAIN ScenarioLex)
               faiss_results == CandidatesByScore(ScenarioVec, DOMAIN ScenarioVec)
           IN /\ fn_args' = <<bm25_results, faiss_results, top_k, alpha>>
              /\ fn_ret' = Applied(FuseAndRank(bm25_results, faiss_results, top_k, alpha))
    /\ UNCHANGED <<retrieverVars, scriptVars, temperatureVars, conformalVars>>

\* ------------------------------------------------------------ CalibrationMetrics

\* exact rationals <<num, den>>, den > 0
RatAdd(a, b) == <<a[1] * b[2] + b[1] * a[2], a[2] * b[2]>>
RatMul(a, b) == <<a[1] * b[1], a[2] * b[2]>>
RatAbsDiff(a, b) ==
    LET n == a[1] * b[2] - b[1] * a[2]
    IN <<IF n < 0 THEN -n ELSE n, a[2] * b[2]>>
\* a <= b between two floats held as <<num, den>>
RatLe(a, b) == a[1] * b[2] <= b[1] * a[2]

MaxBins == 3
\* confidences = np.max(probs, axis=1), in units of 1 / ProbScale
Confidence(row) == SeqMax(Range(row))
\* predictions = np.argmax(probs, axis=1): the first class holding the maximum
Prediction(row) ==
    CHOOSE c \in Classes : /\ row[c] = Confidence(row)
                           /\ \A d \in Classes : row[d] = row[c] => c <= d
\* np.digitize(x, np.linspace(0, 1, n_bins + 1)): the number of edges j / n_bins
\* that are <= x
Digitize(x, n_bins) == Cardinality({j \in 0..n_bins : j * ProbScale <= x * n_bins})
\* bin_indices = np.digitize(confidences, bins) - 1
BinIndex(row, n_bins) == Digitize(Confidence(row), n_bins) - 1
\* mask = (bin_indices == i), as the set of examples it selects
Mask(probs, n_bins, i) == {e \in DOMAIN probs : BinIndex(probs[e], n_bins) = i}

RECURSIVE SumOfConfidences(_, _)
SumOfConfidences(probs, mask) ==
    IF mask = {} THEN 0
    ELSE LET e == CHOOSE x \in mask : TRUE
         IN Confidence(probs[e]) + SumOfConfidences(probs, mask \ {e})
\* np.mean(confidences[mask]), mask not empty
MeanConfidence(probs, mask) ==
    <<SumOfConfidences(probs, mask), Cardinality(mask) * ProbScale>>
\* np.mean(accuracies[mask]), mask not empty
MeanAccuracy(probs, labels, mask) ==
    <<Cardinality({e \in mask : Prediction(probs[e]) = labels[e]}), Cardinality(mask)>>

\* the loop of expected_calibration_error from bin i on, ece being the sum so far
RECURSIVE EceLoop(_, _, _, _, _)
EceLoop(probs, labels, n_bins, i, ece) ==
    IF i >= n_bins THEN ece
    ELSE LET mask == Mask(probs, n_bins, i)
         IN IF Cardinality(mask) > 0
            THEN LET bin_confidence == MeanConfidence(probs, mask)
                     bin_accuracy == MeanAccuracy(probs, labels, mask)
                     bin_weight == <<Cardinality(mask), Len(probs)>>
                 IN EceLoop(probs, labels, n_bins, i + 1,
                            RatAdd(ece, RatMul(bin_weight,
                                               RatAbsDiff(bin_confidence, bin_accuracy))))
            ELSE EceLoop(probs, labels, n_bins, i + 1, ece)
\* CalibrationMetrics.expected_calibration_error
expected_calibration_error(probs, labels, n_bins) ==
    EceLoop(probs, labels, n_bins, 0, <<0, 1>>)

\* bin_stats of plot_reliability_diagram from bin i on
RECURSIVE BinStats(_, _, _, _)
BinStats(probs, labels, n_bins, i) ==
    IF i >= n_bins THEN <<>>
    ELSE LET mask == Mask(probs, n_bins, i)
         IN (IF Cardinality(mask) > 0
             THEN LET bin_confidence == MeanConfidence(probs, mask)
                      bin_accuracy == MeanAccuracy(probs, labels, mask)
                  IN <<[bin_id |-> i, confidence |-> bin_confidence,
                        accuracy |-> bin_accuracy, count |-> Cardinality(mask),
                        gap |-> RatAbsDiff(bin_confidence, bin_accuracy)]>>
             ELSE <<>>) \o BinStats(probs, labels, n_bins, i + 1)
\* the sum of the gaps as it would be without the weights count / n_samples
RECURSIVE SumOfGapsUnweighted(_, _)
SumOfGapsUnweighted(bin_stats, n_samples) ==
    IF bin_stats = <<>> THEN <<0, 1>>
    ELSE RatAdd(SumOfGapsUnweighted(Tail(bin_stats), n_samples), bin_stats[1].gap)
\* sum(stat['count'] / len(confidences) * stat['gap'] for stat in bin_stats)
RECURSIVE SumOfGaps(_, _)
SumOfGaps(bin_stats, n_samples) ==
    IF bin_stats = <<>> THEN <<0, 1>>
    ELSE RatAdd(SumOfGaps(SubSeq(bin_stats, 1, Len(bin_stats) - 1), n_samples),
                RatMul(<<bin_stats[Len(bin_stats)].count, n_samples>>,
                       bin_stats[Len(bin_stats)].gap))
\* CalibrationMetrics.plot_reliability_diagram (save_path=None)
plot_reliability_diagram(probs, labels, n_bins) ==
    LET bin_stats == BinStats(probs, labels, n_bins, 0)
    IN [ece |-> SumOfGaps(bin_stats, Len(probs)), bins |-> bin_stats,
        n_samples |-> Len(probs), n_bins |-> n_bins]

\* the inputs: a batch of probability rows, its labels, a number of bins
InitMetrics ==
    /\ \E probs \in Batches(ProbRows) : \E labels \in LabelsFor(probs) :
           \E n_bins \in 1..MaxBins :
               fn_args = [probs |-> probs, labels |-> labels, n_bins |-> n_bins]
    /\ fn_ret = NotApplied

ExpectedCalibrationError ==
    /\ ~fn_ret.done
    /\ fn_ret' = Applied([op |-> "expected_calibration_error",
                          ece |-> expected_calibration_error(fn_args.probs, fn_args.labels,
                                                             fn_args.n_bins),
                          bins |-> <<>>])
    /\ UNCHANGED <<fn_args, retrieverVars, scriptVars, temperatureVars, conformalVars>>

PlotReliabilityDiagram ==
    /\ ~fn_ret.done
    /\ LET r == plot_reliability_diagram(fn_args.probs, fn_args.labels, fn_args.n_bins)
       IN fn_ret' = Applied([op |-> "plot_reliability_diagram", ece |-> r.ece,
                             bins |-> r.bins])
    /\ UNCHANGED <<fn_args, retrieverVars, scriptVars, temperatureVars, conformalVars>>

\* ------------------------------------------------------------ RetrievalEvaluator

MaxEvalDocs == 3
MaxRetrieved == 3
EvalDocIds == 1..MaxEvalDocs
\* retrieved: a list of doc_ids; relevant: a set of doc_ids; k: the cut
RetrievedLists == UNION {[1..n -> EvalDocIds] : n \in 0..MaxRetrieved}
RelevantSets == SUBSET EvalDocIds
Cuts == 0..(MaxRetrieved + 1)

\* recall_at_k as it would be over the part of the list behind the cut
recall_at_k_behind_cut(retrieved, relevant, k) ==
    IF relevant = {} THEN <<0, 1>>
    ELSE <<Cardinality({retrieved[i] : i \in {j \in DOMAIN retrieved : j > k}} \cap relevant),
           Cardinality(relevant)>>
\* recall_at_k as it would be over the whole retrieved list
recall_at_k_uncut(retrieved, relevant, k) ==
    IF relevant = {} THEN <<0, 1>>
    ELSE <<Cardinality(Range(retrieved) \cap relevant), Cardinality(relevant)>>
\* RetrievalEvaluator.recall_at_k, the float as <<num, den>>
recall_at_k(retrieved, relevant, k) ==
    IF relevant = {} THEN <<0, 1>>
    ELSE LET top_k == Range(Take(retrieved, k))
             hits == Cardinality(top_k \cap relevant)
         IN <<hits, Cardinality(relevant)>>

\* 1 / np.log2(i + 1) for rank i, in thousandths
Discount == <<1000, 631, 500, 431, 387, 356>>
\* the loop of ndcg_at_k over retrieved[:k]: dcg += rel / log2(i + 1)
RECURSIVE DcgLoop(_, _, _)
DcgLoop(top, relevant, i) ==
    IF i = 0 THEN 0
    ELSE DcgLoop(top, relevant, i - 1)
         + (IF top[i] \in relevant THEN Discount[i] ELSE 0)
\* sum(1.0 / np.log2(i + 1) for i in range(1, m + 1))
RECURSIVE IdealDcg(_)
IdealDcg(m) == IF m <= 0 THEN 0 ELSE IdealDcg(m - 1) + Discount[m]
Min(a, b) == IF a <= b THEN a ELSE b
\* RetrievalEvaluator.ndcg_at_k, the float as <<dcg, idcg>>
ndcg_at_k(retrieved, relevant, k) ==
    LET top == Take(retrieved, k)
        dcg == DcgLoop(top, relevant, Len(top))
        idcg == IdealDcg(Min(Cardinality(relevant), k))
    IN IF idcg = 0 THEN <<0, 1>> ELSE <<dcg, idcg>>

InitEvaluator ==
    /\ \E retrieved \in RetrievedLists, relevant \in RelevantSets, k \in Cuts :
           fn_args = [retrieved |-> retrieved, relevant |-> relevant, k |-> k]
    /\ fn_ret = NotApplied

RecallAtK ==
    /\ ~fn_ret.done
    /\ fn_ret' = Applied([op |-> "recall_at_k",
                          value |-> recall_at_k(fn_args.retrieved, fn_args.relevant,
                                                fn_args.k)])
    /\ UNCHANGED <<fn_args, retrieverVars, scriptVars, temperatureVars, conformalVars>>

NdcgAtK ==
    /\ ~fn_ret.done
    /\ fn_ret' = Applied([op |-> "ndcg_at_k",
                          value |-> ndcg_at_k(fn_args.retrieved, fn_args.relevant,
                                              fn_args.k)])
    /\ UNCHANGED <<fn_args, retrieverVars, scriptVars, temperatureVars, conformalVars>>

\* ------------------------------------------------------------ evaluate_retrieval.main

MaxQueries == 2
\* top_k=10 of every evaluate_dataset call of main
SweepTopK == 10
\* a rational in lowest terms
RECURSIVE Euclid(_, _)
Euclid(a, b) == IF b = 0 THEN a ELSE Euclid(b, a % b)
RatNorm(a) ==
    IF a[1] = 0 THEN <<0, 1>>
    ELSE LET g == Euclid(a[1], a[2]) IN <<a[1] \div g, a[2] \div g>>

\* RetrievalEvaluator.mean_reciprocal_rank: 1 / rank of the first relevant entry
mean_reciprocal_rank(retrieved, relevant) ==
    LET hits == {i \in DOMAIN retrieved : retrieved[i] \in relevant}
    IN IF hits = {} THEN <<0, 1>> ELSE <<1, SeqMin(hits)>>

\* RetrievalEvaluator.evaluate_query. alpha is in tenths; main builds the
\* retriever with use_faiss=False, and the lexical-only branch of hybrid_search
\* does not read alpha.
QueryMetrics(retrieved_ids, relevant_docs) ==
    [status |-> "ok",
     recall5 |-> recall_at_k(retrieved_ids, relevant_docs, 5),
     recall10 |-> recall_at_k(retrieved_ids, relevant_docs, 10),
     mrr |-> mean_reciprocal_rank(retrieved_ids, relevant_docs),
     ndcg5 |-> ndcg_at_k(retrieved_ids, relevant_docs, 5),
     ndcg10 |-> ndcg_at_k(retrieved_ids, relevant_docs, 10)]
RetrievedIds(results) == [i \in DOMAIN results |-> results[i][1]]
MetricsOfResults(results, relevant_docs) ==
    IF results.status # "ok" THEN [status |-> results.status]
    ELSE QueryMetrics(RetrievedIds(results.results), relevant_docs)
evaluate_query(query, relevant_docs, top_k, alpha) ==
    MetricsOfResults(hybrid_search(query, top_k, alpha), relevant_docs)

MetricKeys == {"recall5", "recall10", "mrr", "ndcg5", "ndcg10"}
\* np.mean([m[key] for m in all_metrics])
RECURSIVE SumOfMetric(_, _, _)
SumOfMetric(all_metrics, key, n) ==
    IF n = 0 THEN <<0, 1>>
    ELSE RatNorm(RatAdd(SumOfMetric(all_metrics, key, n - 1), all_metrics[n][key]))
MeanOfMetric(all_metrics, key) ==
    LET total == SumOfMetric(all_metrics, key, Len(all_metrics))
    IN RatNorm(<<total[1], total[2] * Len(all_metrics)>>)

\* RetrievalEvaluator.evaluate_dataset: the metrics of every query, averaged;
\* an exception of a query leaves the function
FirstRaised(all_metrics, raised) ==
    IF raised # {} THEN [status |-> all_metrics[SeqMin(raised)].status]
    ELSE [key \in MetricKeys |-> MeanOfMetric(all_metrics, key)] @@ [status |-> "ok"]
AverageMetrics(all_metrics) ==
    FirstRaised(all_metrics, {i \in DOMAIN all_metrics : all_metrics[i].status # "ok"})
evaluate_dataset(queries, top_k, alpha) ==
    AverageMetrics([i \in DOMAIN queries |->
                       evaluate_query(queries[i].query, queries[i].relevant_docs,
                                      top_k, alpha)])

\* load_test_queries_from_annotations: one query per annotated goal, its
\* relevant set the one document the goal was annotated in
TestQueryItems ==
    {[query |-> q, relevant_docs |-> {d}] : q \in Queries, d \in DocIds}
TestQueryLists == UNION {[1..n -> TestQueryItems] : n \in 0..MaxQueries}

\* the four strategies main always lists
BaseStrategies ==
    << [name |-> "bm25", alpha |-> 10], [name |-> "hybrid-0.7", alpha |-> 7],
       [name |-> "hybrid-0.5", alpha |-> 5], [name |-> "hybrid-0.3", alpha |-> 3] >>
PureFaiss == [name |-> "faiss", alpha |-> 0]

\* max(results_table, key=lambda x: x[key]): the first row holding the maximum
BestBy(table, key) ==
    LET i == CHOOSE i \in DOMAIN table :
                 /\ \A j \in DOMAIN table : RatLe(table[j][key], table[i][key])
                 /\ \A j \in 1..(i - 1) : ~RatLe(table[i][key], table[j][key])
    IN table[i].strategy

\* main up to the retriever: HybridRetriever(index_dir="indexes", use_faiss=False)
InitSweep ==
    /\ \E load_ok \in BOOLEAN : ConstructRetriever(NumDocs, FALSE, load_ok)
    /\ hashOrder = [i \in 1..NumDocs |-> i]
    /\ pc = "prompt"
    /\ last = NoCall
    /\ sweep_pc = "load"
    /\ test_queries = <<>>
    /\ strategies = <<>>
    /\ results_table = <<>>
    /\ best = <<>>

\* test_queries = load_test_queries_from_annotations(...); sys.exit(1) if empty
LoadTestQueries ==
    /\ sweep_pc = "load"
    /\ \E loaded \in TestQueryLists :
           /\ test_queries' = loaded
           /\ sweep_pc' = IF loaded = <<>> THEN "exit" ELSE "strategies"
    /\ UNCHANGED <<strategies, results_table, best>>
    /\ UNCHANGED <<objectVars, checkpointVars, crawlVars, runnerVars>>

\* the strategies list, with pure FAISS appended if retriever.use_faiss
BuildStrategies ==
    /\ sweep_pc = "strategies"
    /\ strategies' = IF use_faiss THEN Append(BaseStrategies, PureFaiss)
                      ELSE BaseStrategies
    /\ sweep_pc' = "evaluate"
    /\ UNCHANGED <<test_queries, results_table, best>>
    /\ UNCHANGED <<objectVars, checkpointVars, crawlVars, runnerVars>>

\* one iteration of "for strategy_name, alpha in strategies"
AppendRow(strategy, avg_metrics) ==
    IF avg_metrics.status # "ok"
    THEN /\ sweep_pc' = avg_metrics.status
         /\ UNCHANGED results_table
    ELSE /\ results_table' =
                Append(results_table,
                       avg_metrics @@ [strategy |-> strategy.name,
                                       alpha |-> strategy.alpha])
         /\ sweep_pc' = IF Len(results_table) + 1 = Len(strategies)
                         THEN "report" ELSE "evaluate"
EvaluateNext(strategy) ==
    AppendRow(strategy, evaluate_dataset(test_queries, SweepTopK, strategy.alpha))
EvaluateStrategy ==
    /\ sweep_pc = "evaluate"
    /\ EvaluateNext(strategies[Len(results_table) + 1])
    /\ UNCHANGED <<test_queries, strategies, best>>
    /\ UNCHANGED <<objectVars, checkpointVars, crawlVars, runnerVars>>

\* the comparison table and the best strategy per metric
ReportBest ==
    /\ sweep_pc = "report"
    /\ best' = [recall10 |-> BestBy(results_table, "recall10"),
                mrr |-> BestBy(results_table, "mrr"),
                ndcg10 |-> BestBy(results_table, "ndcg10")]
    /\ sweep_pc' = "done"
    /\ UNCHANGED <<test_queries, strategies, results_table>>
    /\ UNCHANGED <<objectVars, checkpointVars, crawlVars, runnerVars>>

\* ------------------------------------------------------------ crawler_common: checkpoint file

MaxPages == 3
\* a path of the file system: no file, or a file holding the text written so far
NoFile == [exists |-> FALSE, text |-> <<>>]
File(text) == [exists |-> TRUE, text |-> text]
CheckpointPath == "checkpoint.json"
\* a temporary path that is the path of the checkpoint file itself
TempPathInPlace(path) == path
\* path.with_suffix(".tmp")
TempPath(path) == "checkpoint.tmp"
Paths == {CheckpointPath, TempPath(CheckpointPath)}

\* the checkpoint dict of one site: empty, or {"next_page": n}
EmptyDict == <<>>
CheckpointStates == {EmptyDict} \cup {[next_page |-> n] : n \in 1..(MaxPages + 1)}
Token(kind, val) == [kind |-> kind, val |-> val]
\* json.dump(state, f): the chunks it hands to f.write, in order
json_dump(state) ==
    IF state = EmptyDict THEN <<Token("{", 0), Token("}", 0)>>
    ELSE <<Token("{", 0), Token("key", 0), Token("int", state.next_page), Token("}", 0)>>
\* json.load(f): the dict of a complete document, JSONDecodeError otherwise
json_load(text) ==
    IF \E state \in CheckpointStates : json_dump(state) = text
    THEN [status |-> "ok",
          value |-> CHOOSE state \in CheckpointStates : json_dump(state) = text]
    ELSE [status |-> "JSONDecodeError", value |-> EmptyDict]
\* load_checkpoint(path) on the file system files
load_checkpoint(files, path) ==
    IF files[path].exists THEN json_load(files[path].text)
    ELSE [status |-> "ok", value |-> EmptyDict]
\* temp_path.replace(path)
Replaced(files, temp_path, path) ==
    IF temp_path = path THEN files
    ELSE [files EXCEPT ![path] = files[temp_path], ![temp_path] = NoFile]
\* save_checkpoint(path, state) run to its end
save_checkpoint(files, path, state) ==
    Replaced([files EXCEPT ![TempPath(path)] = File(json_dump(state))],
             TempPath(path), path)
NotLoaded == [status |-> "none", value |-> EmptyDict]

\* a process about to call save_checkpoint(CheckpointPath, ckpt_arg); the file
\* holds what an earlier call saved, or does not exist yet
InitCheckpoint ==
    /\ \E prev \in CheckpointStates, present \in BOOLEAN :
           /\ present \/ prev = EmptyDict
           /\ ckpt_prev = prev
           /\ fs = [p \in Paths |->
                       IF p = CheckpointPath /\ present
                       THEN File(json_dump(prev)) ELSE NoFile]
    /\ ckpt_arg \in CheckpointStates
    /\ ckpt_pc = "call"
    /\ ckpt_loaded = NotLoaded

\* path.parent.mkdir(...); open(temp_path, "w") creates or truncates the file
SaveOpen ==
    /\ ckpt_pc = "call"
    /\ fs' = [fs EXCEPT ![TempPath(CheckpointPath)] = File(<<>>)]
    /\ ckpt_pc' = "write"
    /\ UNCHANGED <<ckpt_arg, ckpt_prev, ckpt_loaded>>
    /\ UNCHANGED <<objectVars, sweepVars, crawlVars, runnerVars>>

\* json.dump: the next chunk reaches the file
SaveWrite ==
    /\ ckpt_pc = "write"
    /\ LET temp_path == TempPath(CheckpointPath)
           written == Len(fs[temp_path].text)
       IN /\ written < Len(json_dump(ckpt_arg))
          /\ fs' = [fs EXCEPT ![temp_path] =
                        File(Append(fs[temp_path].text, json_dump(ckpt_arg)[written + 1]))]
    /\ UNCHANGED <<ckpt_pc, ckpt_arg, ckpt_prev, ckpt_loaded>>
    /\ UNCHANGED <<objectVars, sweepVars, crawlVars, runnerVars>>

\* the with block ends: the file is closed
SaveClose ==
    /\ ckpt_pc = "write"
    /\ Len(fs[TempPath(CheckpointPath)].text) = Len(json_dump(ckpt_arg))
    /\ ckpt_pc' = "replace"
    /\ UNCHANGED <<fs, ckpt_arg, ckpt_prev, ckpt_loaded>>
    /\ UNCHANGED <<objectVars, sweepVars, crawlVars, runnerVars>>

\* temp_path.replace(path), then save_checkpoint returns
SaveReplace ==
    /\ ckpt_pc = "replace"
    /\ fs' = Replaced(fs, TempPath(CheckpointPath), CheckpointPath)
    /\ ckpt_pc' = "returned"
    /\ UNCHANGED <<ckpt_arg, ckpt_prev, ckpt_loaded>>
    /\ UNCHANGED <<objectVars, sweepVars, crawlVars, runnerVars>>

\* the process stops at whatever step of save_checkpoint it is at
StopInSave ==
    /\ ckpt_pc \in {"call", "write", "replace"}
    /\ ckpt_pc' = "stopped"
    /\ UNCHANGED <<fs, ckpt_arg, ckpt_prev, ckpt_loaded>>
    /\ UNCHANGED <<objectVars, sweepVars, crawlVars, runnerVars>>

\* the next process: load_checkpoint(CheckpointPath)
LoadCheckpoint ==
    /\ ckpt_pc \in {"stopped", "returned"}
    /\ ckpt_loaded' = load_checkpoint(fs, CheckpointPath)
    /\ ckpt_pc' = "loaded"
    /\ UNCHANGED <<fs, ckpt_arg, ckpt_prev>>
    /\ UNCHANGED <<objectVars, sweepVars, crawlVars, runnerVars>>

\* it goes on from what it loaded and calls save_checkpoint with a new state
SaveAgain ==
    /\ ckpt_pc = "loaded"
    /\ ckpt_loaded.status = "ok"
    /\ ckpt_prev' = ckpt_loaded.value
    /\ ckpt_arg' \in CheckpointStates
    /\ ckpt_loaded' = NotLoaded
    /\ ckpt_pc' = "call"
    /\ UNCHANGED fs
    /\ UNCHANGED <<objectVars, sweepVars, crawlVars, runnerVars>>

\* ------------------------------------------------------------ crawl_gov_central.crawl_site

MaxLinks == 2
\* site_config.get("start_page", 1)
StartPage == 1
\* what is known of a list page: never fetched successfully, or fetched with
\* so many detail links of which so many documents were saved
NotFetched == [ok |-> FALSE, links |-> 0, saved |-> 0]
Fetched(links, saved) == [ok |-> TRUE, links |-> links, saved |-> saved]
\* checkpoint.get(site_name, {}).get("next_page", start_page)
ResumePage(ckpt) == IF ckpt = EmptyDict THEN StartPage ELSE ckpt.next_page
\* the loop "for page_num in range(resume_page, max_pages + 1)" after page_num
AfterPage == IF page_num + 1 <= MaxPages THEN "loop" ELSE "done"

\* main before its first run: no checkpoint file, nothing fetched
InitCrawler ==
    /\ fs = [p \in Paths |-> NoFile]
    /\ ckpt_pc = "idle"
    /\ ckpt_arg = EmptyDict
    /\ ckpt_prev = EmptyDict
    /\ ckpt_loaded = NotLoaded
    /\ crawl_pc = "main"
    /\ page_num = 0
    /\ checkpoint = EmptyDict
    /\ fetched = [p \in StartPage..MaxPages |-> NotFetched]

\* main: checkpoint = load_checkpoint(CHECKPOINT_PATH), then crawl_site up to
\* its loop
CrawlStart ==
    /\ crawl_pc = "main"
    /\ LET loaded == load_checkpoint(fs, CheckpointPath)
       IN IF loaded.status # "ok"
          THEN /\ crawl_pc' = loaded.status
               /\ UNCHANGED <<page_num, checkpoint>>
          ELSE /\ checkpoint' = loaded.value
               /\ page_num' = ResumePage(loaded.value)
               /\ crawl_pc' = IF ResumePage(loaded.value) <= MaxPages
                               THEN "loop" ELSE "done"
    /\ UNCHANGED <<fetched, checkpointVars>>
    /\ UNCHANGED <<objectVars, sweepVars, runnerVars>>

\* an iteration whose list page is fetched and holds links: every detail link
\* is handled (saved, skipped, or failed and logged), then the checkpoint is
\* set to page_num + 1 and saved
ListPageFetched ==
    /\ crawl_pc = "loop"
    /\ \E links \in 1..MaxLinks, saved \in 0..MaxLinks :
           /\ saved <= links
           /\ fetched' = [fetched EXCEPT ![page_num] = Fetched(links, saved)]
    /\ checkpoint' = [next_page |-> page_num + 1]
    /\ fs' = save_checkpoint(fs, CheckpointPath, [next_page |-> page_num + 1])
    /\ crawl_pc' = AfterPage
    /\ page_num' = page_num + 1
    /\ UNCHANGED <<ckpt_pc, ckpt_arg, ckpt_prev, ckpt_loaded>>
    /\ UNCHANGED <<objectVars, sweepVars, runnerVars>>

\* an iteration whose list page holds no link: break
ListPageEmpty ==
    /\ crawl_pc = "loop"
    /\ crawl_pc' = "done"
    /\ UNCHANGED <<page_num, checkpoint, fetched, checkpointVars>>
    /\ UNCHANGED <<objectVars, sweepVars, runnerVars>>

\* an iteration whose list page cannot be fetched: the exception is logged
\* and the loop continues with the next page
ListPageFailed ==
    /\ crawl_pc = "loop"
    /\ crawl_pc' = AfterPage
    /\ page_num' = page_num + 1
    /\ UNCHANGED <<checkpoint, fetched, checkpointVars>>
    /\ UNCHANGED <<objectVars, sweepVars, runnerVars>>

\* the run ends (its loop is over, or the process is stopped); the crawler is
\* started again later
CrawlAgain ==
    /\ crawl_pc \in {"loop", "done"}
    /\ crawl_pc' = "main"
    /\ page_num' = 0
    /\ checkpoint' = EmptyDict
    /\ UNCHANGED <<fetched, checkpointVars>>
    /\ UNCHANGED <<objectVars, sweepVars, runnerVars>>

\* ------------------------------------------------------------ run_all_demos.DemoRunner

\* self.demos, in execution order
Demos ==
    << [script |-> "validate_annotations.py", required |-> FALSE],
       [script |-> "build_index.py", required |-> TRUE],
       [script |-> "retrieve_evidence.py", required |-> FALSE],
       [script |-> "build_graph_pyg.py", required |-> TRUE],
       [script |-> "train_hgt.py", required |-> FALSE],
       [script |-> "calibrate_and_conformal.py", required |-> FALSE],
       [script |-> "prep_panel.py", required |-> FALSE],
       [script |-> "demo_did_workflow.py", required |-> FALSE] >>
\* what can happen to a demo handed to run_demo: returncode 0, the script
\* file missing, a non-zero returncode, TimeoutExpired, another exception
DemoOutcomes == {"ok", "missing", "nonzero", "timeout", "exception"}
\* DemoRunner.run_demo: True on returncode 0; otherwise False for a required
\* demo and True for an optional one
run_demo(demo, outcome) == IF outcome = "ok" THEN TRUE ELSE ~demo.required
\* the loop of run_all after the demo at demo_i, unless it breaks
AfterDemo == IF demo_i + 1 <= Len(Demos) THEN "loop" ELSE "summary"

\* run_all(skip_optional) up to its loop
InitRunner ==
    /\ skip_optional \in BOOLEAN
    /\ run_pc = "loop"
    /\ demo_i = 1
    /\ completed = 0
    /\ failed = 0
    /\ skipped = 0
    /\ outcomes = [o \in DemoOutcomes |-> 0]
    /\ summary = ""

\* an iteration on an optional demo under --skip-optional
SkipDemo ==
    /\ run_pc = "loop"
    /\ skip_optional /\ ~Demos[demo_i].required
    /\ skipped' = skipped + 1
    /\ demo_i' = demo_i + 1
    /\ run_pc' = AfterDemo
    /\ UNCHANGED <<completed, failed, skip_optional, outcomes, summary>>
    /\ UNCHANGED <<objectVars, sweepVars, checkpointVars, crawlVars>>

\* the counters of run_all after run_demo returned success for a demo
CountDemo(demo, success) ==
    /\ completed' = IF success THEN completed + 1 ELSE completed
    /\ failed' = IF success THEN failed ELSE failed + 1
    /\ run_pc' = IF ~success /\ demo.required THEN "summary" ELSE AfterDemo

\* an iteration that runs the demo
RunDemo ==
    /\ run_pc = "loop"
    /\ ~(skip_optional /\ ~Demos[demo_i].required)
    /\ \E outcome \in DemoOutcomes :
           /\ outcomes' = [outcomes EXCEPT ![outcome] = @ + 1]
           /\ CountDemo(Demos[demo_i], run_demo(Demos[demo_i], outcome))
    /\ demo_i' = demo_i + 1
    /\ UNCHANGED <<skipped, skip_optional, summary>>
    /\ UNCHANGED <<objectVars, sweepVars, checkpointVars, crawlVars>>

\* DemoRunner.print_summary
print_summary(n_completed, n_failed) ==
    IF n_failed = 0 /\ n_completed > 0 THEN "all executed demos succeeded"
    ELSE IF n_failed > 0 THEN "some demos failed"
    ELSE "no demo was executed"

PrintSummary ==
    /\ run_pc = "summary"
    /\ summary' = print_summary(completed, failed)
    /\ run_pc' = "done"
    /\ UNCHANGED <<demo_i, completed, failed, skipped, skip_optional, outcomes>>
    /\ UNCHANGED <<objectVars, sweepVars, checkpointVars, crawlVars>>

\* ------------------------------------------------------------ specifications

\* an object nobody calls in the specification at hand
IdleRetriever ==
    /\ ConstructRetriever(NumDocs, FALSE, FALSE)
    /\ hashOrder = [i \in 1..NumDocs |-> i]
    /\ pc = "prompt"
    /\ last = NoCall
IdleConformal ==
    /\ cp_alpha = 10
    /\ quantile = NoneQuantile
    /\ calibrate_calls = 0
    /\ cp_last = NoCpCall

IdleTemperature ==
    /\ temperature = 10
    /\ fit_calls = 0
    /\ ts_last = NoTsCall
IdleFunction ==
    /\ fn_args = <<>>
    /\ fn_ret = NotApplied
\* a script nobody runs in the specification at hand
IdleSweep ==
    /\ sweep_pc = "idle"
    /\ test_queries = <<>>
    /\ strategies = <<>>
    /\ results_table = <<>>
    /\ best = <<>>
IdleCheckpoint ==
    /\ fs = [p \in {} |-> <<>>]
    /\ ckpt_pc = "idle"
    /\ ckpt_arg = <<>>
    /\ ckpt_prev = <<>>
    /\ ckpt_loaded = <<>>
IdleCrawler ==
    /\ crawl_pc = "idle"
    /\ page_num = 0
    /\ checkpoint = <<>>
    /\ fetched = {}
IdleRunner ==
    /\ run_pc = "idle"
    /\ demo_i = 0
    /\ completed = 0
    /\ failed = 0
    /\ skipped = 0
    /\ skip_optional = FALSE
    /\ outcomes = <<>>
    /\ summary = ""
IdleScripts == IdleSweep /\ IdleCheckpoint /\ IdleCrawler /\ IdleRunner

NextRetriever == Bm25Search \/ FaissSearch \/ HybridSearch \/ FormatResults
InitSpecRetriever == InitRetriever /\ IdleTemperature /\ IdleConformal /\ IdleFunction /\ IdleScripts
SpecRetriever == InitSpecRetriever /\ [][NextRetriever]_vars

InitSpecOverfetch == InitOverfetch /\ IdleTemperature /\ IdleConformal /\ IdleFunction /\ IdleScripts
SpecOverfetch == InitSpecOverfetch /\ [][NextRetriever]_vars

NextRerun == NextRetriever \/ Restart \/ RerunQuery
SpecRerun == InitSpecRetriever /\ [][NextRerun]_vars

InitSpecDesync == InitDesync /\ IdleTemperature /\ IdleConformal /\ IdleFunction /\ IdleScripts
SpecDesync == InitSpecDesync /\ [][NextRetriever]_vars

InitSpecNormalize == IdleRetriever /\ IdleTemperature /\ IdleConformal /\ InitNormalize /\ IdleScripts
SpecNormalize == InitSpecNormalize /\ [][ApplyNormalize]_vars

NextScenario == ScenarioSearch \/ ScenarioFuse \/ FormatResults
InitSpecScenario == InitScenario /\ IdleTemperature /\ IdleConformal /\ IdleFunction /\ IdleScripts
SpecScenario == InitSpecScenario /\ [][NextScenario]_vars

NextMetrics == ExpectedCalibrationError \/ PlotReliabilityDiagram
InitSpecMetrics == IdleRetriever /\ IdleTemperature /\ IdleConformal /\ InitMetrics /\ IdleScripts
SpecMetrics == InitSpecMetrics /\ [][NextMetrics]_vars

NextEvaluator == RecallAtK \/ NdcgAtK
InitSpecEvaluator == IdleRetriever /\ IdleTemperature /\ IdleConformal /\ InitEvaluator /\ IdleScripts
SpecEvaluator == InitSpecEvaluator /\ [][NextEvaluator]_vars

NextSweep == LoadTestQueries \/ BuildStrategies \/ EvaluateStrategy \/ ReportBest
InitSpecSweep == InitSweep /\ IdleTemperature /\ IdleConformal /\ IdleFunction /\ IdleCheckpoint /\ IdleCrawler /\ IdleRunner
SpecSweep == InitSpecSweep /\ [][NextSweep]_vars

NextCheckpoint ==
    SaveOpen \/ SaveWrite \/ SaveClose \/ SaveReplace \/ StopInSave \/ LoadCheckpoint \/ SaveAgain
InitSpecCheckpoint == IdleRetriever /\ IdleTemperature /\ IdleConformal /\ IdleFunction /\ IdleSweep /\ InitCheckpoint /\ IdleCrawler /\ IdleRunner
SpecCheckpoint == InitSpecCheckpoint /\ [][NextCheckpoint]_vars

NextCrawler == CrawlStart \/ ListPageFetched \/ ListPageEmpty \/ ListPageFailed \/ CrawlAgain
InitSpecCrawler == IdleRetriever /\ IdleTemperature /\ IdleConformal /\ IdleFunction /\ IdleSweep /\ InitCrawler /\ IdleRunner
SpecCrawler == InitSpecCrawler /\ [][NextCrawler]_vars

NextRunner == SkipDemo \/ RunDemo \/ PrintSummary
InitSpecRunner == IdleRetriever /\ IdleTemperature /\ IdleConformal /\ IdleFunction /\ IdleSweep /\ IdleCheckpoint /\ IdleCrawler /\ InitRunner
SpecRunner == InitSpecRunner /\ [][NextRunner]_vars

NextTemperature == Fit \/ Transform \/ TsReturn
InitSpecTemperature == IdleRetriever /\ InitTemperature /\ IdleConformal /\ IdleFunction /\ IdleScripts
SpecTemperature == InitSpecTemperature /\ [][NextTemperature]_vars

NextConformal == Calibrate \/ PredictSet \/ ComputeCoverage \/ CpReturn
InitSpecConformal == IdleRetriever /\ IdleTemperature /\ InitConformal /\ IdleFunction /\ IdleScripts
SpecConformal == InitSpecConformal /\ [][NextConformal]_vars

\* ------------------------------------------------------------ claims

DocSeq(results) == [i \in DOMAIN results |-> results[i][1]]
HybridReturned ==
    /\ pc = "show"
    /\ last.op = "hybrid_search"
    /\ last.status = "ok"

\* C1: TemperatureScaling.transform on an instance never fitted fails and
\* returns no probabilities.
C1_TransformFailsBeforeFit ==
    (ts_last.op = "transform" /\ fit_calls = 0) => ts_last.status # "ok"

\* C2: predict_set and compute_coverage raise the "calibrate first" error and
\* leave the quantile unset as long as calibrate was never called, and never
\* raise that error once calibrate has been called.
C2_CalibrateFirstError ==
    cp_last.op \in {"predict_set", "compute_coverage"} =>
        IF calibrate_calls = 0
        THEN /\ cp_last.status = "ValueError"
             /\ cp_last.sets = <<>>
             /\ quantile = NoneQuantile
        ELSE cp_last.status # "ValueError"

\* C3: in hybrid mode, hybrid_search with alpha = 1.0 returns the doc_id
\* sequence of bm25_search with the same query and top_k.
C3_AlphaOneIsLexicalRanking ==
    (HybridReturned /\ use_faiss /\ last.alpha = AlphaDen) =>
        DocSeq(last.results) = DocSeq(bm25_search(last.query, last.top_k).results)

\* C4: in hybrid mode, hybrid_search with alpha = 0.0 returns the doc_id
\* sequence of faiss_search with the same query and top_k.
C4_AlphaZeroIsVectorRanking ==
    (HybridReturned /\ use_faiss /\ last.alpha = 0) =>
        DocSeq(last.results) = DocSeq(faiss_search(last.query, last.top_k).results)

\* the lexical ranking of a query: every row, by descending cosine score
LexicalRanking(query) == bm25_search(query, tfidf_rows).results

C6_DesyncNeverRaises ==
    (pc = "show" /\ last.op \in {"bm25_search", "hybrid_search"}) =>
        last.status # "KeyError"

\* what the two adapters returned to the last hybrid_search (2 * top_k each)
LexSide == bm25_search(last.query, 2 * last.top_k).results
VecSide == faiss_search(last.query, 2 * last.top_k).results
SideDocs(side) == {side[i][1] : i \in DOMAIN side}
SideScore(side, d) == side[CHOOSE i \in DOMAIN side : side[i][1] = d][2]

\* the position at which a candidate was first returned by an adapter: the
\* lexical list first, then the vector list
FirstSeen(seen, d) ==
    CHOOSE i \in DOMAIN seen : seen[i] = d /\ \A j \in 1..(i - 1) : seen[j] # d

\* C7: two candidates of a hybrid_search result that have the same fused score
\* appear in the order in which the adapters first returned them.
C7_TiesInFirstSeenOrder ==
    (HybridReturned /\ use_faiss) =>
        LET seen == DocSeq(LexSide) \o DocSeq(VecSide)
        IN \A i, j \in DOMAIN last.results :
               (i < j /\ last.results[i][2] = last.results[j][2]) =>
                   FirstSeen(seen, last.results[i][1]) < FirstSeen(seen, last.results[j][1])

\* C8: hybrid_search asked again with the same query, top_k and alpha on the
\* same index files returns the same (doc_id, score) sequence.
C8_SameCallSameResult ==
    [][(pc = "rerun" /\ pc' = "show") =>
           (last'.status = last.status /\ last'.results = last.results
            /\ last'.den = last.den)]_vars

\* rationals <<num, den>> with den > 0
RatEq(a, b) == a[1] * b[2] = b[1] * a[2]
\* min-max scaling of a candidate over one side; 0 on a side it is missing from
MinMaxOn(side, d) ==
    IF d \notin SideDocs(side) THEN <<0, 1>>
    ELSE LET all == {side[i][2] : i \in DOMAIN side}
         IN IF SeqMax(all) = SeqMin(all) THEN <<1, 1>>
            ELSE <<SideScore(side, d) - SeqMin(all), SeqMax(all) - SeqMin(all)>>
\* alpha * lexical_norm + (1 - alpha) * vector_norm
ExpectedFused(lex, vec, d) ==
    LET l == MinMaxOn(lex, d)
        v == MinMaxOn(vec, d)
    IN <<last.alpha * l[1] * v[2] + (AlphaDen - last.alpha) * v[1] * l[2],
         AlphaDen * l[2] * v[2]>>

\* C9: in hybrid mode every returned candidate carries
\* alpha * lexical_norm + (1 - alpha) * vector_norm with 0 for a missing side,
\* and every candidate of the union takes part in the ranking: the result has
\* min(top_k, |union|) entries and no candidate left out scores higher than a
\* returned one.
C9_FusedOverUnion ==
    (HybridReturned /\ use_faiss) =>
        LET lex == LexSide
            vec == VecSide
            union == SideDocs(lex) \cup SideDocs(vec)
        IN /\ \A i \in DOMAIN last.results :
                  /\ last.results[i][1] \in union
                  /\ RatEq(<<last.results[i][2], last.den>>,
                           ExpectedFused(lex, vec, last.results[i][1]))
           /\ Len(last.results) = IF last.top_k < Cardinality(union)
                                  THEN last.top_k ELSE Cardinality(union)
           /\ \A d \in union \ Range(DocSeq(last.results)) :
                  \A i \in DOMAIN last.results :
                      RatLe(ExpectedFused(lex, vec, d), <<last.results[i][2], last.den>>)
\* a candidate that only the vector index returned wins at alpha = 0.5
C9_Witness ==
    /\ HybridReturned /\ use_faiss
    /\ last.alpha = 1
    /\ Len(last.results) = 1
    /\ last.results[1][1] \notin SideDocs(LexSide)
    /\ last.results[1][1] \in SideDocs(VecSide)
    /\ last.results[1][2] > 0

\* C10: normalize_scores maps an empty list to an empty dict; otherwise it
\* gives every candidate (score - min) / (max - min), a value in [0,1] that is
\* 1 for the maximum and 0 for the minimum, or 1.0 for every candidate when all
\* scores are equal; the divisor is never zero.
C10_MinMaxNormalization ==
    fn_ret.done =>
        LET norm == fn_ret.value
            scores == {fn_args[i][2] : i \in DOMAIN fn_args}
        IN /\ DOMAIN norm = SideDocs(fn_args)
           /\ \A d \in DOMAIN norm :
                  /\ norm[d][2] > 0
                  /\ 0 <= norm[d][1] /\ norm[d][1] <= norm[d][2]
                  /\ IF SeqMax(scores) = SeqMin(scores)
                     THEN norm[d][1] = norm[d][2]
                     ELSE norm[d][1] * (SeqMax(scores) - SeqMin(scores))
                          = (SideScore(fn_args, d) - SeqMin(scores)) * norm[d][2]
\* three candidates: the maximum, the minimum and one strictly between
C10_Witness ==
    /\ fn_ret.done
    /\ Len(fn_args) = 3
    /\ \E a, b, c \in DOMAIN fn_ret.value :
           /\ fn_ret.value[a][1] = fn_ret.value[a][2]
           /\ fn_ret.value[b][1] = 0
           /\ 0 < fn_ret.value[c][1] /\ fn_ret.value[c][1] < fn_ret.value[c][2]

ScenarioFused == <<55, 50, 45, 30, 20>>
ScenarioExpected(ret) ==
    /\ ret.status = "ok"
    /\ DocSeq(ret.results) = <<1, 2, 3, 4, 5>>
    /\ \A i \in DOMAIN ret.results :
           ret.results[i][2] * 100 = ScenarioFused[ret.results[i][1]] * ret.den

\* C12: on the five documents with lexical scores 0.9 0.1 0.5 0.0 0.3 and
\* vector scores 0.2 0.9 0.4 0.6 0.1, hybrid_search with alpha = 0.5 and
\* top_k >= 5 returns doc1..doc5 in this order with fused scores
\* 0.55 0.50 0.45 0.30 0.20, as a call on the index and as the fusion of the two
\* candidate lists.
C12_ScenarioFusedScores ==
    /\ (pc = "show" /\ last.op = "hybrid_search" /\ last.query = ScenarioQuery)
           => ScenarioExpected(last)
    /\ fn_ret.done => ScenarioExpected(fn_ret.value)

\* the nonconformity scores of the last calibrate call
CalibrationScores == NonconformityScores(cp_last.probs, cp_last.labels)
Calibrated ==
    /\ cp_last.op = "calibrate"
    /\ cp_last.status = "ok"
    /\ Len(cp_last.labels) > 0

\* C13: after calibrate on a non-empty calibration set, at least a (1 - alpha)
\* fraction of the calibration scores is at or below the fitted quantile.
C13_QuantileCoversCalibrationSet ==
    Calibrated =>
        LET scores == CalibrationScores
            below == {i \in DOMAIN scores : 100 * scores[i] <= quantile.value}
        IN /\ quantile.kind = "float"
           /\ 100 * Cardinality(below) >= (100 - cp_alpha) * Len(scores)

\* ceil((n + 1) * (1 - alpha)) for alpha in percent
CorrectedRank(n, alpha) == ((n + 1) * (100 - alpha) + 99) \div 100

\* C14: the quantile level calibrate uses on n >= 1 examples is at least
\* 1 - alpha and at least min(1, ceil((n + 1)(1 - alpha)) / n).
C14_QuantileLevelNotBelowCorrected ==
    Calibrated =>
        LET n == Len(cp_last.labels)
            q_level == QLevelPct(cp_alpha)
            rank == CorrectedRank(n, cp_alpha)
        IN /\ q_level >= 100 - cp_alpha
           /\ q_level * n >= (IF rank < n THEN 100 * rank ELSE 100 * n)

\* the classes whose nonconformity 1 - p does not exceed the quantile q
ClassesWithin(row, q) ==
    {c \in Classes : q.kind = "float" /\ 100 * (ProbScale - row[c]) <= q.value}
\* what predict_set and compute_coverage are to return under the quantile q
SetsAndCoverageAsSpecified(call, q) ==
    /\ call.status = "ok"
    /\ call.op = "predict_set" =>
           call.sets = [i \in DOMAIN call.probs |-> ClassesWithin(call.probs[i], q)]
    /\ call.op = "compute_coverage" =>
           LET hit == {i \in DOMAIN call.labels :
                          call.labels[i] \in ClassesWithin(call.probs[i], q)}
           IN /\ call.coverage[2] > 0
              /\ call.coverage[1] * Len(call.labels) = Cardinality(hit) * call.coverage[2]

\* C15: once calibrate has been called, predict_set returns for each example
\* exactly the classes with 1 - p <= quantile, compute_coverage returns the
\* fraction of examples whose label is in that set, and neither changes the
\* quantile.
C15_SetsAndCoverage ==
    [][(/\ calibrate_calls = 1
        /\ cp_last.op = "none"
        /\ cp_last'.op \in {"predict_set", "compute_coverage"})
       => (/\ quantile' = quantile
           /\ SetsAndCoverageAsSpecified(cp_last', quantile))]_vars

\* Finite precision.  Raw scores are counted in steps of the float grid around
\* them; logits / T (T in tenths) is the quotient rounded to the nearest step.
RoundedQuotient(x, T) == (20 * x + T) \div (2 * T)
\* np.argmax: the first index holding the maximum
ArgMax(row) ==
    CHOOSE c \in DOMAIN row :
        /\ \A d \in DOMAIN row : row[d] <= row[c]
        /\ \A d \in DOMAIN row : row[d] = row[c] => c <= d
\* _softmax is non-decreasing in the scaled logit and gives equal scaled logits
\* equal probabilities, so the probabilities of an example rank as its scaled
\* logits do.
ProbabilityRank(ret, i) ==
    [c \in Classes |-> RoundedQuotient(ret.logits[i][c], ret.temperature)]

\* C16: for every temperature fit can produce and every raw score matrix, the
\* arg-max class of transform(raw_scores) is the arg-max class of raw_scores,
\* for every example.
C16_ArgMaxPreserved ==
    (ts_last.op = "transform" /\ ts_last.status = "ok") =>
        \A i \in DOMAIN ts_last.logits :
            ArgMax(ProbabilityRank(ts_last.ret, i)) = ArgMax(ts_last.logits[i])

\* the bins of the last metrics call that hold example e
BinsHolding(e) ==
    {i \in 0..(fn_args.n_bins - 1) : e \in Mask(fn_args.probs, fn_args.n_bins, i)}
RECURSIVE SumOfCounts(_)
SumOfCounts(bin_stats) ==
    IF bin_stats = <<>> THEN 0 ELSE bin_stats[1].count + SumOfCounts(Tail(bin_stats))

\* C17: the binning of expected_calibration_error and plot_reliability_diagram
\* puts every example in exactly one of the n_bins bins, so the bin counts sum
\* to the number of examples.
C17_BinsPartitionExamples ==
    fn_ret.done =>
        /\ \A e \in DOMAIN fn_args.probs : Cardinality(BinsHolding(e)) = 1
        /\ fn_ret.value.op = "plot_reliability_diagram" =>
               SumOfCounts(fn_ret.value.bins) = Len(fn_args.probs)

BinOfPartition(row, n_bins) ==
    LET i == (Confidence(row) * n_bins) \div ProbScale
    IN IF i < n_bins THEN i ELSE n_bins - 1
\* sum over the non-empty bins of weight * |mean confidence - mean accuracy|,
\* as a numerator over Len(probs) * ProbScale
RECURSIVE WeightedGaps(_, _, _, _)
WeightedGaps(probs, labels, n_bins, i) ==
    IF i >= n_bins THEN 0
    ELSE LET bin == {e \in DOMAIN probs : BinOfPartition(probs[e], n_bins) = i}
             gap == SumOfConfidences(probs, bin)
                    - ProbScale * Cardinality({e \in bin : Prediction(probs[e]) = labels[e]})
         IN (IF gap < 0 THEN -gap ELSE gap) + WeightedGaps(probs, labels, n_bins, i + 1)

\* C19: expected_calibration_error returns, without a division error, a value
\* in [0,1] that is the occupancy-weighted sum of |mean confidence - mean
\* accuracy| over the non-empty bins.
C19_EceIsWeightedGap ==
    (fn_ret.done /\ fn_ret.value.op = "expected_calibration_error") =>
        LET ece == fn_ret.value.ece
            n == Len(fn_args.probs)
        IN /\ ece[2] > 0
           /\ 0 <= ece[1] /\ ece[1] <= ece[2]
           /\ ece[1] * (IF n = 0 THEN 1 ELSE n * ProbScale)
                  = WeightedGaps(fn_args.probs, fn_args.labels, fn_args.n_bins, 0) * ece[2]

\* the relevant doc_ids found among the first k retrieved
HitsWithin(retrieved, relevant, k) ==
    {d \in relevant : \E i \in DOMAIN retrieved : i <= k /\ retrieved[i] = d}

\* C20: recall_at_k is |set(retrieved[:k]) & relevant| / |relevant|, is 0 for
\* an empty relevant set, and lies in [0,1].
C20_RecallAtK ==
    (fn_ret.done /\ fn_ret.value.op = "recall_at_k") =>
        LET recall == fn_ret.value.value
            relevant == fn_args.relevant
        IN /\ recall[2] > 0
           /\ 0 <= recall[1] /\ recall[1] <= recall[2]
           /\ IF relevant = {} THEN recall[1] = 0
              ELSE recall[1] * Cardinality(relevant)
                   = Cardinality(HitsWithin(fn_args.retrieved, relevant, fn_args.k))
                     * recall[2]
\* one relevant document inside the cut, another retrieved only after it
C20_Witness ==
    /\ fn_ret.done /\ fn_ret.value.op = "recall_at_k"
    /\ fn_args.k < Len(fn_args.retrieved)
    /\ fn_ret.value.value[1] > 0
    /\ \E i \in DOMAIN fn_args.retrieved :
           /\ i > fn_args.k
           /\ fn_args.retrieved[i] \in fn_args.relevant
           /\ fn_args.retrieved[i] \notin Range(Take(fn_args.retrieved, fn_args.k))

\* C21: for a fixed retrieved list and relevant set recall_at_k does not
\* decrease as k grows.
C21_RecallMonotoneInK ==
    (fn_ret.done /\ fn_ret.value.op = "recall_at_k") =>
        \A k2 \in Cuts :
            fn_args.k <= k2 =>
                RatLe(fn_ret.value.value,
                      recall_at_k(fn_args.retrieved, fn_args.relevant, k2))
\* a cut after which the next position adds a hit
C21_Witness ==
    /\ fn_ret.done /\ fn_ret.value.op = "recall_at_k"
    /\ fn_args.k >= 1
    /\ fn_ret.value.value[1] >= 1
    /\ ~RatLe(recall_at_k(fn_args.retrieved, fn_args.relevant, fn_args.k + 1),
              fn_ret.value.value)

\* C22: for every retrieved list, relevant set and k >= 1, ndcg_at_k is in
\* [0, 1], and it is 0 when the relevant set is empty.
C22_NdcgInUnitInterval ==
    (fn_ret.done /\ fn_ret.value.op = "ndcg_at_k" /\ fn_args.k >= 1) =>
        /\ RatLe(<<0, 1>>, fn_ret.value.value)
        /\ RatLe(fn_ret.value.value, <<1, 1>>)
        /\ (fn_args.relevant = {} => RatEq(fn_ret.value.value, <<0, 1>>))

\* the first n positions of a list hold n different relevant documents
DistinctRelevantPrefix(retrieved, relevant, n) ==
    /\ Len(retrieved) >= n
    /\ \A i \in 1..n : retrieved[i] \in relevant
    /\ \A i, j \in 1..n : i # j => retrieved[i] # retrieved[j]

\* C23: with a non-empty relevant set, ndcg_at_k is 1.0 whenever the first
\* min(|relevant|, k) positions of retrieved are distinct relevant documents.
C23_IdealPrefixGivesOne ==
    (/\ fn_ret.done /\ fn_ret.value.op = "ndcg_at_k" /\ fn_args.k >= 1
     /\ fn_args.relevant # {}
     /\ DistinctRelevantPrefix(fn_args.retrieved, fn_args.relevant,
                               Min(Cardinality(fn_args.relevant), fn_args.k)))
        => RatEq(fn_ret.value.value, <<1, 1>>)

\* C24: when main reports the best strategies, the sweep has evaluated both
\* endpoints alpha = 0.0 and alpha = 1.0, all on the same queries.
C24_SweepCoversEndpoints ==
    sweep_pc = "done" =>
        {0, 10} \subseteq {results_table[i].alpha : i \in DOMAIN results_table}

\* C25: on zero examples calibrate returns normally and leaves a well-defined
\* quantile, and compute_coverage (on a predictor holding a quantile) returns
\* normally; neither raises.
C25_ZeroExamplesFallBack ==
    /\ (cp_last.op = "calibrate" /\ cp_last.labels = <<>>) =>
           (cp_last.status = "ok" /\ quantile.kind = "float")
    /\ (cp_last.op = "compute_coverage" /\ cp_last.labels = <<>>
        /\ quantile # NoneQuantile) =>
           cp_last.status = "ok"

\* C26: no step of the retriever (bm25_search, faiss_search, hybrid_search,
\* whatever they return or raise) changes the lexical index, the vector index,
\* the ID map, the document metadata or use_faiss.
C26_SearchesMutateNothing ==
    [][UNCHANGED <<tfidf_rows, use_faiss, faiss_index, idx_to_id, documents>>]_vars
\* a hybrid_search that raised inside the vector search, the index still loaded
C26_Witness ==
    /\ pc = "show" /\ last.op = "hybrid_search"
    /\ last.status = "KeyError"
    /\ use_faiss /\ faiss_index.loaded
    /\ faiss_index.ntotal = tfidf_rows

\* C27: use_faiss implies a loaded vector index in every state (a failed load
\* leaves the retriever lexical-only), and faiss_search, called directly or by
\* hybrid_search, raises only when use_faiss is False.
C27_FaissOnlyFailsWhenDisabled ==
    /\ use_faiss => faiss_index.loaded
    /\ (pc = "show" /\ last.op = "faiss_search" /\ last.status # "ok") => ~use_faiss
    /\ (pc = "show" /\ last.op = "hybrid_search" /\ use_faiss) =>
           faiss_search(last.query, 2 * last.top_k).status = "ok"

\* C28: whatever step of save_checkpoint the process stopped at, the next
\* load_checkpoint returns the complete previous state or the complete new
\* state, never a partial or empty one.
C28_SaveCheckpointAtomic ==
    ckpt_pc = "loaded" =>
        /\ ckpt_loaded.status = "ok"
        /\ ckpt_loaded.value \in {ckpt_prev, ckpt_arg}
\* stopped in the middle of json.dump: half a document in the temporary file,
\* the previous state loaded
C28_Witness ==
    /\ ckpt_pc = "loaded"
    /\ fs[TempPath(CheckpointPath)].exists
    /\ Len(fs[TempPath(CheckpointPath)].text) \in 1..(Len(json_dump(ckpt_arg)) - 1)
    /\ ckpt_prev # ckpt_arg
    /\ ckpt_prev # EmptyDict
    /\ ckpt_loaded.value = ckpt_prev

\* C29: whenever the checkpoint file holds next_page = p, every list page from
\* the start page to p - 1 has been fetched successfully and its detail links
\* handled; a failed list page is not passed over by a later checkpoint.
C29_CheckpointBehindFetchedPages ==
    LET persisted == load_checkpoint(fs, CheckpointPath)
    IN (persisted.status = "ok" /\ persisted.value # EmptyDict) =>
           \A q \in StartPage..(persisted.value.next_page - 1) :
               q <= MaxPages => fetched[q].ok

\* the executed demos that did not end with returncode 0
DemosThatFailed ==
    outcomes["missing"] + outcomes["nonzero"] + outcomes["timeout"]
    + outcomes["exception"]
\* C30: in run_all, completed counts exactly the executed demos whose script
\* existed and exited with returncode 0, failed counts every executed demo
\* that did not, and print_summary reports that all succeeded only when none
\* failed.
C30_CountersMatchOutcomes ==
    run_pc # "idle" =>
        /\ completed = outcomes["ok"]
        /\ failed = DemosThatFailed
        /\ (run_pc = "done" /\ summary = "all executed demos succeeded") =>
               DemosThatFailed = 0

====
